---- MODULE Spec2Model ----
(***************************************************************************)
(* State-machine model of the video-upload service:                        *)
(*   app/s3_service.py  backend selection at import time and upload_to_s3  *)
(*   app/main.py        POST /videos/ and GET /videos/{video_id}           *)
(*   app/crud.py        create_video / get_video                           *)
(*   app/routes.py      POST /upload and GET /search                       *)
(* The handlers are modelled at the level of their function bodies: what   *)
(* each statement evaluates to, which exception it raises, and what it     *)
(* writes to the disk, the bucket and the videos table.                    *)
(* As the repository has it, importing s3_service raises inside            *)
(* app/config.py, so no handler is ever served; the states beyond the      *)
(* import are those of the modules loaded with a stand-in for app.config.  *)
(* routes.py cannot be loaded at all (ImportError at its line 5, NameError *)
(* at its line 22), so POST /upload and GET /search are never served: the  *)
(* bodies of its two handlers are modelled as statements run in isolation, *)
(* under a specification of their own.                                     *)
(***************************************************************************)
EXTENDS Integers, Sequences, FiniteSets, TLC

\* ------------------------------------------------------------------ bounds
MaxLen == 2          \* longest uploaded content, in bytes
MaxRequests == 2     \* requests served in one run
MaxCalls == 1        \* upload_to_s3 calls made with an UploadFile in one run

\* ------------------------------------------------------------------ values
Bytes == {1, 2}

\* uploaded contents: the non-empty byte strings of at most MaxLen bytes
Contents == UNION {[1..n -> Bytes] : n \in 1..MaxLen}

\* "no file at this path" / "no object under this key"
Absent == <<0>>

\* A path is a flag (absolute or not) and its segments.
Path(abs, segs) == [abs |-> abs, segs |-> segs]

\* LOCAL_STORAGE_DIR = os.getenv('LOCAL_STORAGE_DIR', './uploads')
LOCAL_STORAGE_DIR == Path(FALSE, <<".", "uploads">>)

\* S3_BUCKET_NAME, when set
S3_BUCKET_NAME == "bucket"

\* client-supplied filenames: 'clip.mp4', '../etc/passwd', '/etc/passwd', ''
FnClip == Path(FALSE, <<"clip.mp4">>)
FnDotDot == Path(FALSE, <<"..", "etc", "passwd">>)
FnAbs == Path(TRUE, <<"etc", "passwd">>)
FnEmpty == Path(FALSE, <<>>)
Filenames == {FnClip, FnDotDot, FnAbs, FnEmpty}

\* os.path.join(a, b): an absolute b discards a, otherwise the segments of b
\* follow those of a
os_path_join(a, b) == IF b.abs THEN b ELSE Path(a.abs, a.segs \o b.segs)

\* The file a path names: '.' segments dropped, 'x/..' collapsed, a leading
\* '..' kept on a relative path and dropped at the root of an absolute one.
RECURSIVE Resolve(_, _, _)
Resolve(abs, done, rest) ==
    IF rest = <<>> THEN done
    ELSE LET s == Head(rest)
             t == Tail(rest)
         IN  IF s = "." THEN Resolve(abs, done, t)
             ELSE IF s = ".."
                  THEN IF done # <<>> /\ done[Len(done)] # ".."
                       THEN Resolve(abs, SubSeq(done, 1, Len(done) - 1), t)
                       ELSE IF abs THEN Resolve(abs, done, t)
                            ELSE Resolve(abs, Append(done, s), t)
                  ELSE Resolve(abs, Append(done, s), t)

RealPath(p) == Path(p.abs, Resolve(p.abs, <<>>, p.segs))

IsPrefix(s, t) == Len(s) <= Len(t) /\ SubSeq(t, 1, Len(s)) = s

\* p names a file strictly below the directory root
InsideRoot(p, root) ==
    LET rp == RealPath(p)
        rr == RealPath(root)
    IN  rp.abs = rr.abs /\ IsPrefix(rr.segs, rp.segs) /\ Len(rp.segs) > Len(rr.segs)

\* the files the service can name
DiskPaths == {RealPath(os_path_join(LOCAL_STORAGE_DIR, f)) : f \in Filenames}

\* ------------------------------------------------------------------ state
VARIABLES
    module,       \* s3_service: "importing", "loaded", or "crashed" (import raised)
    routes,       \* routes.py: "importing" or "crashed" (import raised)
    s3_enabled,   \* s3_service.s3_enabled
    s3_client,    \* s3_service.s3_client is not None
    dirExists,    \* the directory LOCAL_STORAGE_DIR exists
    disk,         \* local files: DiskPaths -> content or Absent
    bucket,       \* objects of the bucket: key -> content or Absent
    videos,       \* rows of the videos table
    frame,        \* the upload_to_s3 call in progress
    response,     \* what the last finished request or call produced
    seen,         \* per endpoint, the body of its first driver/SDK failure
    nReq,         \* requests served
    nCalls        \* upload_to_s3 calls made with an UploadFile

vars == <<module, routes, s3_enabled, s3_client, dirExists, disk, bucket, videos,
          frame, response, seen, nReq, nCalls>>


\* ------------------------------------------------------------------ records
\* the file-like objects handed to upload_to_s3
BytesIO(content) == [kind |-> "BytesIO", filename |-> FnEmpty, data |-> content]
UploadFile(filename, content) == [kind |-> "UploadFile", filename |-> filename, data |-> content]
NoFile == [kind |-> "none", filename |-> FnEmpty, data |-> <<>>]

\* schemas.VideoCreate
VideoCreate(filename, file_size, upload_path) ==
    [filename |-> filename, file_size |-> file_size, upload_path |-> upload_path]
NoMeta == VideoCreate(FnEmpty, 0, FnEmpty)

\* a row of models.Video; description is Null when the column is NULL
Null == <<"NULL">>
NoRow == [id |-> 0, title |-> Null, description |-> Null, uploader_id |-> 0]

Exc(type, text) == [type |-> type, text |-> text]

NoResponse ==
    [ep |-> "none", status |-> 0, msg |-> "", cause |-> "none", id |-> 0,
     exc |-> "", row |-> NoRow, rows |-> {}, meta |-> NoMeta, created |-> FALSE]

IdleFrame ==
    [pc |-> "idle", caller |-> "none", file |-> NoFile, file_key |-> FnEmpty,
     file_location |-> FnEmpty, written |-> 0, prev |-> Absent]

Endpoints == {"POST /videos/", "POST /upload", "GET /search"}

\* ------------------------------------------------------------------ s3_service import
\* exceptions the import-time try block catches
CaughtAtImport == {"NoCredentialsError", "EndpointConnectionError", "InvalidRegionError"}

\* what boto3.client(...) and s3_client.head_bucket(...) can do: return, raise one of
\* the caught classes, or raise botocore's ClientError (403 access denied, 404 no
\* such bucket)
ClientOutcomes == {"ok", "InvalidRegionError"}
ProbeOutcomes == {"ok", "ClientError"} \cup CaughtAtImport

\* Path(LOCAL_STORAGE_DIR).mkdir(parents=True, exist_ok=True)
MkdirOutcomes == {"ok", "OSError"}

\* `from .config import settings` (s3_service.py line 4) runs the module code of
\* app/config.py, which raises in every environment: ImportError at its line 1
\* (pydantic 2, which s3_service.py line 38 requires, has no BaseSettings), and
\* with that name supplied ModuleNotFoundError at its line 30 (fastapi has no
\* middleware.sessions). "stand-in" is the import with app.config replaced by a
\* module that provides settings.
ConfigOutcomes == {"ImportError", "ModuleNotFoundError", "stand-in"}

\* The import of s3_service (lines 4-29): the state it leaves.
\* cfg: what the import of app.config does; e: the environment; dir: the directory
\* exists beforehand; mk, cl, pr: what mkdir, boto3.client and head_bucket do.
ImportResult(mod, enabled, client, dir) ==
    [module |-> mod, s3_enabled |-> enabled, s3_client |-> client, dirExists |-> dir]

s3_service_import(cfg, e, dir, mk, cl, pr) ==
    IF cfg # "stand-in"
    THEN ImportResult("crashed", FALSE, FALSE, dir)
    ELSE IF ~dir /\ mk # "ok"
    THEN ImportResult("crashed", FALSE, FALSE, FALSE)
    ELSE IF ~(e.access_key /\ e.secret_key /\ e.bucket_name)
    THEN ImportResult("loaded", FALSE, FALSE, TRUE)
    ELSE IF cl # "ok"
    THEN IF cl \in CaughtAtImport
         THEN ImportResult("loaded", FALSE, FALSE, TRUE)
         ELSE ImportResult("crashed", FALSE, FALSE, TRUE)
    ELSE IF pr = "ok"
    THEN ImportResult("loaded", TRUE, TRUE, TRUE)
    ELSE IF pr \in CaughtAtImport
    THEN ImportResult("loaded", FALSE, TRUE, TRUE)
    ELSE ImportResult("crashed", FALSE, TRUE, TRUE)

\* which of S3_ACCESS_KEY_ID, S3_SECRET_ACCESS_KEY, S3_BUCKET_NAME are set
Environments == [access_key : BOOLEAN, secret_key : BOOLEAN, bucket_name : BOOLEAN]

Startup ==
    /\ module = "importing"
    /\ \E cfg \in ConfigOutcomes, env \in Environments, mk \in MkdirOutcomes,
          cl \in ClientOutcomes, pr \in ProbeOutcomes :
         LET r == s3_service_import(cfg, env, dirExists, mk, cl, pr)
         IN  /\ module' = r.module
             /\ s3_enabled' = r.s3_enabled
             /\ s3_client' = r.s3_client
             /\ dirExists' = r.dirExists
             /\ response' = [NoResponse EXCEPT !.ep = "import",
                               \* the step that decided this import: the import of
                               \* app.config or mkdir when it raised (lines 19-29 are
                               \* then never run), else the credentials and the probe
                               !.cause = IF cfg # "stand-in" THEN "config"
                                         ELSE IF ~dirExists /\ mk # "ok" THEN "mkdir"
                                         ELSE IF ~(env.access_key /\ env.secret_key /\ env.bucket_name)
                                         THEN "no credentials"
                                         ELSE IF cl # "ok" THEN cl ELSE pr,
                               \* the exception that left the import, if one did
                               !.exc = IF cfg # "stand-in" THEN cfg
                                       ELSE IF ~dirExists /\ mk # "ok" THEN mk
                                       ELSE IF r.module = "crashed" THEN "ClientError"
                                       ELSE ""]
    /\ UNCHANGED <<routes, disk, bucket, videos, frame, seen, nReq, nCalls>>


\* ------------------------------------------------------------------ upload_to_s3
AttributeErrorFilename == Exc("AttributeError", "'_io.BytesIO' object has no attribute 'filename'")
AttributeErrorUploadPath == Exc("AttributeError", "'dict' object has no attribute 'upload_path'")
NameErrorE == Exc("NameError", "name 'e' is not defined")
ValidationErrorFilename == Exc("ValidationError", "1 validation error for VideoCreate filename")
IsADirectoryError == Exc("IsADirectoryError", "[Errno 21] Is a directory")
OSErrorOpen == Exc("OSError", "[Errno 2] No such file or directory")
OSErrorWrite == Exc("OSError", "[Errno 28] No space left on device")
NoExc == Exc("", "")

\* message texts of the SDK errors upload_fileobj raises other than NoCredentialsError
SdkTexts == {"Could not connect to the endpoint URL", "An error occurred (AccessDenied)"}
S3Outcomes == {"ok", "NoCredentialsError"} \cup SdkTexts

\* what open(file_location, "wb") and one buffer write can do
IoOutcomes == {"ok", "OSError"}

\* file.filename / file.file exist on an UploadFile, not on a BytesIO
HasFilename(file) == file.kind = "UploadFile"

\* upload_to_s3 up to its first effect (lines 33-35, 41): the branch taken, or the
\* exception raised by the first evaluation of file.filename
upload_to_s3_enter(file, enabled) ==
    IF ~enabled
    THEN IF HasFilename(file)
         THEN [go |-> "local", exc |-> NoExc,
               file_location |-> os_path_join(LOCAL_STORAGE_DIR, file.filename)]
         ELSE [go |-> "raise", exc |-> AttributeErrorFilename, file_location |-> FnEmpty]
    ELSE IF HasFilename(file)
         THEN [go |-> "s3", exc |-> NoExc, file_location |-> FnEmpty]
         ELSE [go |-> "raise", exc |-> AttributeErrorFilename, file_location |-> FnEmpty]

\* what a finished upload_to_s3 call hands its caller
Raised(exc) == [raised |-> TRUE, exc |-> exc, message |-> "", meta |-> NoMeta]
Returned(message, meta) == [raised |-> FALSE, exc |-> NoExc, message |-> message, meta |-> meta]

\* the local branch's return value (lines 38-39)
local_result(file, file_location, size) ==
    Returned("File uploaded locally", VideoCreate(file.filename, size, file_location))

\* the S3 branch after upload_fileobj (lines 43-48): VideoCreate(filename=file, ...)
\* is given the file object where a str is required; the except clause names e,
\* which it never binds; every other exception leaves the function as raised
s3_result(out) ==
    IF out = "ok" THEN Raised(ValidationErrorFilename)
    ELSE IF out = "NoCredentialsError" THEN Raised(NameErrorE)
    ELSE Raised(Exc("ClientError", out))

\* ------------------------------------------------------------------ main.py: POST /videos/
\* upload_video after upload_to_s3 (lines 36-40): an exception becomes a 400 whose
\* message is str(e); a returned dict has no attribute upload_path, which raises
\* inside the same try before crud.create_video is called
upload_video_finish_Persisting(out, vids) ==
    [response |-> [NoResponse EXCEPT !.ep = "POST /videos/", !.status = 400,
                     !.msg = IF out.raised THEN out.exc.text ELSE AttributeErrorUploadPath.text,
                     !.exc = IF out.raised THEN out.exc.type ELSE AttributeErrorUploadPath.type,
                     !.cause = IF out.raised THEN "storage" ELSE "handler",
                     !.created = TRUE],
     videos |-> vids \cup {[NoRow EXCEPT !.id = Cardinality(vids) + 1]}]

upload_video_finish(out, vids) ==
    [response |-> [NoResponse EXCEPT !.ep = "POST /videos/", !.status = 400,
                     !.msg = IF out.raised THEN out.exc.text ELSE AttributeErrorUploadPath.text,
                     !.exc = IF out.raised THEN out.exc.type ELSE AttributeErrorUploadPath.type,
                     !.cause = IF out.raised THEN "storage" ELSE "handler",
                     !.created = FALSE],
     videos |-> vids]

\* what a direct caller of upload_to_s3 observes
direct_finish(out, vids) ==
    [response |-> [NoResponse EXCEPT !.ep = "upload_to_s3",
                     !.msg = IF out.raised THEN out.exc.text ELSE out.message,
                     !.exc = out.exc.type,
                     !.cause = IF out.raised THEN "raised" ELSE "returned",
                     !.meta = out.meta],
     videos |-> vids]

Remember(ep, body) == [seen EXCEPT ![ep] = IF @ = "none" THEN body ELSE @]

\* the call returns or raises to its caller; fr is the frame it leaves behind (the
\* finished call, kept for reference, or none when nothing was opened)
Finish(caller, out, fr) ==
    LET r == IF caller = "upload_video"
             THEN upload_video_finish(out, videos)
             ELSE direct_finish(out, videos)
    IN  /\ response' = r.response
        /\ videos' = r.videos
        /\ frame' = fr
        /\ nReq' = IF caller = "upload_video" THEN nReq + 1 ELSE nReq
        /\ seen' = IF caller = "upload_video" /\ out.raised
                   THEN Remember("POST /videos/", r.response.msg)
                   ELSE seen

\* the call starts: lines 33-36 (open truncates or creates the file) or 41
Enter(caller, file, key, io) ==
    LET st == upload_to_s3_enter(file, s3_enabled)
        rp == RealPath(st.file_location)
    IN  IF st.go = "raise"
        THEN Finish(caller, Raised(st.exc), IdleFrame) /\ UNCHANGED <<disk, bucket>>
        ELSE IF st.go = "s3"
        THEN /\ frame' = [IdleFrame EXCEPT !.pc = "s3_put", !.caller = caller,
                            !.file = file, !.file_key = key]
             /\ UNCHANGED <<disk, bucket, videos, response, seen, nReq>>
        ELSE IF rp = RealPath(LOCAL_STORAGE_DIR)
        THEN Finish(caller, Raised(IsADirectoryError), IdleFrame) /\ UNCHANGED <<disk, bucket>>
        ELSE IF io # "ok"
        THEN Finish(caller, Raised(OSErrorOpen), IdleFrame) /\ UNCHANGED <<disk, bucket>>
        ELSE /\ frame' = [IdleFrame EXCEPT !.pc = "copy", !.caller = caller,
                            !.file = file, !.file_key = key,
                            !.file_location = st.file_location, !.prev = disk[rp]]
             /\ disk' = [disk EXCEPT ![rp] = <<>>]
             /\ UNCHANGED <<bucket, videos, response, seen, nReq>>

\* POST /videos/ (lines 26-33): the handler wraps the bytes it read in a BytesIO
PostVideos ==
    /\ module = "loaded" /\ frame.pc = "idle" /\ nReq < MaxRequests
    /\ \E fn \in Filenames, content \in Contents, io \in IoOutcomes :
         Enter("upload_video", BytesIO(content), fn, io)
    /\ UNCHANGED <<module, routes, s3_enabled, s3_client, dirExists, nCalls>>

\* upload_to_s3 called with the object its body dereferences (.filename, .file)
CallUploadToS3 ==
    /\ module = "loaded" /\ frame.pc = "idle" /\ nCalls < MaxCalls
    /\ \E fn \in Filenames, content \in Contents, io \in IoOutcomes :
         Enter("direct", UploadFile(fn, content), fn, io)
    /\ nCalls' = nCalls + 1
    /\ UNCHANGED <<module, routes, s3_enabled, s3_client, dirExists>>

\* shutil.copyfileobj (line 37): one buffer is written, or the write fails and the
\* with block closes the file as the exception leaves
CopyChunk ==
    /\ frame.pc = "copy" /\ frame.written < Len(frame.file.data)
    /\ \E io \in IoOutcomes :
         LET rp == RealPath(frame.file_location)
         IN  IF io = "ok"
             THEN /\ disk' = [disk EXCEPT ![rp] = Append(@, frame.file.data[frame.written + 1])]
                  /\ frame' = [frame EXCEPT !.written = @ + 1]
                  /\ UNCHANGED <<videos, response, seen, nReq>>
             ELSE /\ Finish(frame.caller, Raised(OSErrorWrite), [frame EXCEPT !.pc = "idle"])
                  /\ UNCHANGED disk
    /\ UNCHANGED <<module, routes, s3_enabled, s3_client, dirExists, bucket, nCalls>>

\* lines 38-39: the file is closed, its size read back, the dict returned
LocalReturn ==
    /\ frame.pc = "copy" /\ frame.written = Len(frame.file.data)
    /\ LET rp == RealPath(frame.file_location)
       IN  Finish(frame.caller, local_result(frame.file, frame.file_location, Len(disk[rp])),
                  [frame EXCEPT !.pc = "idle"])
    /\ UNCHANGED <<module, routes, s3_enabled, s3_client, dirExists, disk, bucket, nCalls>>

\* S3Put with a failover: a failed write switches the service to the local backend
S3Put_Failover ==
    /\ frame.pc = "s3_put"
    /\ \E out \in S3Outcomes :
         /\ bucket' = IF out = "ok"
                      THEN [bucket EXCEPT ![frame.file_key] = frame.file.data]
                      ELSE bucket
         /\ s3_enabled' = (out = "ok")
         /\ Finish(frame.caller, s3_result(out), [frame EXCEPT !.pc = "idle"])
    /\ UNCHANGED <<module, routes, s3_client, dirExists, disk, nCalls>>

\* s3_client.upload_fileobj (line 43) and what follows it
S3Put ==
    /\ frame.pc = "s3_put"
    /\ \E out \in S3Outcomes :
         /\ bucket' = IF out = "ok"
                      THEN [bucket EXCEPT ![frame.file_key] = frame.file.data]
                      ELSE bucket
         /\ Finish(frame.caller, s3_result(out), [frame EXCEPT !.pc = "idle"])
    /\ UNCHANGED <<module, routes, s3_enabled, s3_client, dirExists, disk, nCalls>>


\* ------------------------------------------------------------------ the database
\* message texts of the exceptions the database driver raises
DriverTexts == {"could not connect to server", "database is locked"}
DbOutcomes == {"ok"} \cup DriverTexts

\* ids a client asks for
VideoIds == 1..MaxRequests

\* crud.get_video: db.query(models.Video).filter(models.Video.id == video_id).first()
crud_get_video(vids, video_id) ==
    IF \E v \in vids : v.id = video_id
    THEN CHOOSE v \in vids : v.id = video_id
    ELSE NoRow

\* ------------------------------------------------------------------ main.py: GET /videos/{video_id}
\* the attributes of a models.Video row and the required fields of
\* schemas.VideoResponse
Columns == {"id", "title", "description", "upload_date", "duration", "uploader_id"}
VideoResponseFields == {"id", "filename", "file_size", "upload_time", "s3_url"}

\* the handler body (lines 43-47): a JSONResponse 404 or the row; an exception of
\* the query leaves the handler
get_video_handler(vids, video_id, db) ==
    LET video == crud_get_video(vids, video_id)
    IN  IF db # "ok"
        THEN [NoResponse EXCEPT !.ep = "GET /videos/{video_id}", !.id = video_id,
                !.status = 500, !.cause = "db", !.exc = "OperationalError",
                !.msg = "Internal Server Error"]
        ELSE IF video = NoRow
        THEN [NoResponse EXCEPT !.ep = "GET /videos/{video_id}", !.id = video_id,
                !.status = 404, !.cause = "ok", !.msg = "Video not found"]
        ELSE [NoResponse EXCEPT !.ep = "GET /videos/{video_id}", !.id = video_id,
                !.status = 200, !.cause = "ok", !.row = video]

\* response_model=schemas.VideoResponse (line 42): a returned row is validated
\* against the model's required fields, read from the row's attributes; a
\* JSONResponse is sent as it is
response_model(r) ==
    IF r.row = NoRow \/ VideoResponseFields \subseteq Columns
    THEN r
    ELSE [r EXCEPT !.status = 500, !.cause = "response", !.exc = "ResponseValidationError",
                   !.msg = "Internal Server Error", !.row = NoRow]

\* GET /videos/{video_id} (lines 42-47)
get_video(vids, video_id, db) == response_model(get_video_handler(vids, video_id, db))

GetVideo ==
    /\ module = "loaded" /\ frame.pc = "idle" /\ nReq < MaxRequests
    /\ \E video_id \in VideoIds, db \in DbOutcomes :
         response' = get_video(videos, video_id, db)
    /\ nReq' = nReq + 1
    /\ UNCHANGED <<module, routes, s3_enabled, s3_client, dirExists, disk, bucket, videos,
                   frame, seen, nCalls>>

\* ------------------------------------------------------------------ routes.py
\* `from app.schemas import VideoSchema, UploadResponse` (line 5): schemas.py
\* defines neither name; "stand-in" is the import with the two names supplied
RoutesNames == {"repository", "stand-in"}

ImportErrorVideoSchema == Exc("ImportError", "cannot import name 'VideoSchema' from 'app.schemas'")
NameErrorDepends == Exc("NameError", "name 'Depends' is not defined")

\* The module code of routes.py: line 5 raises ImportError; with the names
\* supplied, the def at line 22 evaluates Depends(get_db), which no line imports
\* or defines, and raises NameError. Neither handler is ever defined.
routes_import(names) == IF names = "repository" THEN ImportErrorVideoSchema ELSE NameErrorDepends

RoutesImport ==
    /\ routes = "importing"
    /\ \E names \in RoutesNames :
         response' = [NoResponse EXCEPT !.ep = "import routes", !.cause = names,
                        !.exc = routes_import(names).type, !.msg = routes_import(names).text]
    /\ routes' = "crashed"
    /\ UNCHANGED <<module, s3_enabled, s3_client, dirExists, disk, bucket, videos, frame,
                   seen, nReq, nCalls>>

\* the users table: api_key -> id
Users == {[id |-> 1, api_key |-> "key-1"]}

Titles == {<<"a">>, <<"A", "b">>}
Description == <<"b">>
Queries == {<<"a">>, <<"b">>, <<"B">>}

\* the request body of POST /upload: the keys it carries and its title
Body(keys, title) == [keys |-> keys, title |-> title]
VideoData ==
    {Body({"title", "upload_date"}, t) : t \in Titles}
    \cup {Body({"title", "upload_date", "description"}, t) : t \in Titles}
    \cup {Body({"upload_date"}, <<"a">>), Body({"title"}, <<"a">>),
          Body({"title", "upload_date", "uploader_id"}, <<"a">>),
          Body({"title", "upload_date", "filename"}, <<"a">>)}

\* where the database fails during POST /upload, if it does: the user query
\* (line 34) or the commit (line 43)
DbPlans == {[q |-> "ok", c |-> "ok"]}
           \cup {[q |-> t, c |-> "ok"] : t \in DriverTexts}
           \cup {[q |-> "ok", c |-> t] : t \in DriverTexts}

\* the api_key header, with str(e) of the 401 it leads to
Callers == {[api_key |-> "key-1", hs |-> ""]}
           \cup {[api_key |-> "wrong", hs |-> h] : h \in {"401: Invalid API key", ""}}

HTTPException(ep, status, detail, cause, exc) ==
    [NoResponse EXCEPT !.ep = ep, !.status = status, !.msg = detail, !.cause = cause,
                       !.exc = exc]

\* the body of upload_video (lines 32-51). q, c: what the user query and the commit do;
\* hs: str(e) of the HTTPException raised at line 36, "<status>: <detail>" where
\* the class defines __str__ and the empty string where it does not.
routes_upload_video(video_data, api_key, vids, q, c, hs) ==
    LET ep == "POST /upload"
        user == IF \E u \in Users : u.api_key = api_key
                THEN (CHOOSE u \in Users : u.api_key = api_key).id
                ELSE 0
        row == [id |-> Cardinality(vids) + 1, title |-> video_data.title,
                description |-> IF "description" \in video_data.keys THEN Description ELSE Null,
                uploader_id |-> user]
        fail(detail, cause, exc) ==
            [response |-> HTTPException(ep, 500, detail, cause, exc), videos |-> vids]
    IN  IF q # "ok" THEN fail(q, "db", "OperationalError")
        ELSE IF user = 0 THEN fail(hs, "unauthorized", "HTTPException")
        ELSE IF "uploader_id" \in video_data.keys
        THEN fail("got multiple values for keyword argument 'uploader_id'", "input", "TypeError")
        ELSE IF ~(video_data.keys \subseteq Columns)
        THEN fail("'filename' is an invalid keyword argument for Video", "input", "TypeError")
        ELSE IF c # "ok" THEN fail(c, "db", "OperationalError")
        ELSE IF "title" \notin video_data.keys
        THEN fail("NOT NULL constraint failed: videos.title", "integrity", "IntegrityError")
        ELSE IF "upload_date" \notin video_data.keys
        THEN fail("NOT NULL constraint failed: videos.upload_date", "integrity", "IntegrityError")
        ELSE [response |-> [NoResponse EXCEPT !.ep = ep, !.status = 200, !.cause = "ok",
                              !.msg = "Video uploaded successfully", !.id = row.id],
              videos |-> vids \cup {row}]

\* the statements of upload_video's body, run in isolation on a request and a
\* session (the function itself is never defined: see RoutesImport)
UploadVideoBody ==
    /\ frame.pc = "idle" /\ nReq < MaxRequests
    /\ \E video_data \in VideoData, who \in Callers, db \in DbPlans :
         LET r == routes_upload_video(video_data, who.api_key, videos, db.q, db.c, who.hs)
         IN  /\ response' = r.response
             /\ videos' = r.videos
             /\ seen' = IF r.response.cause = "db"
                        THEN Remember("POST /upload", r.response.msg)
                        ELSE seen
    /\ nReq' = nReq + 1
    /\ UNCHANGED <<module, routes, s3_enabled, s3_client, dirExists, disk, bucket, frame, nCalls>>

Lower(ch) == IF ch = "A" THEN "a" ELSE IF ch = "B" THEN "b" ELSE ch
LowerSeq(t) == [i \in 1..Len(t) |-> Lower(t[i])]

\* column.ilike(f"%{query}%"): a case-insensitive substring match, never true of NULL
ILike(text, query) ==
    /\ text # Null
    /\ \E i \in 1..(Len(text) - Len(query) + 1) :
         SubSeq(LowerSeq(text), i, i + Len(query) - 1) = LowerSeq(query)

\* the body of search_videos (lines 55-69)
search_videos(query, vids, db) ==
    IF db # "ok"
    THEN HTTPException("GET /search", 500, db, "db", "OperationalError")
    ELSE [NoResponse EXCEPT !.ep = "GET /search", !.status = 200, !.cause = "ok",
            !.rows = {v \in vids : ILike(v.title, query) \/ ILike(v.description, query)}]

\* the statements of search_videos's body, run in isolation on a query and a
\* session (the function itself is never defined: see RoutesImport)
SearchVideosBody ==
    /\ frame.pc = "idle" /\ nReq < MaxRequests
    /\ \E query \in Queries, db \in DbOutcomes :
         /\ response' = search_videos(query, videos, db)
         /\ seen' = IF db # "ok" THEN Remember("GET /search", response'.msg) ELSE seen
    /\ nReq' = nReq + 1
    /\ UNCHANGED <<module, routes, s3_enabled, s3_client, dirExists, disk, bucket, videos,
                   frame, nCalls>>

\* ------------------------------------------------------------------ specification
\* what the videos table of the database can hold when the process starts
Row1 == [id |-> 1, title |-> <<"a">>, description |-> Null, uploader_id |-> 1]
Row2 == [id |-> 2, title |-> <<"A", "b">>, description |-> Description, uploader_id |-> 1]
InitialTables == {{}, {Row1}, {Row1, Row2}}

Init ==
    /\ module = "importing"
    /\ routes = "importing"
    /\ s3_enabled = FALSE
    /\ s3_client = FALSE
    /\ dirExists \in BOOLEAN
    /\ disk = [p \in DiskPaths |-> Absent]
    /\ bucket = [k \in Filenames |-> Absent]
    /\ videos \in InitialTables
    /\ frame = IdleFrame
    /\ response = NoResponse
    /\ seen = [ep \in Endpoints |-> "none"]
    /\ nReq = 0
    /\ nCalls = 0

\* the service as wired: the imports of s3_service and routes, and the handlers
\* of main.py
Next ==
    \/ Startup
    \/ RoutesImport
    \/ PostVideos
    \/ GetVideo

Spec == Init /\ [][Next]_vars

\* the handler bodies of routes.py, run in isolation
NextRoutes ==
    \/ UploadVideoBody
    \/ SearchVideosBody

SpecRoutes == Init /\ [][NextRoutes]_vars

\* the storage layer starts from an empty table
InitStorage == Init /\ videos = {}

\* the storage layer: the import, POST /videos/, and upload_to_s3 entered with an
\* UploadFile and run statement by statement
NextStorage ==
    \/ Startup
    \/ PostVideos
    \/ CallUploadToS3
    \/ CopyChunk
    \/ LocalReturn
    \/ S3Put

SpecStorage == InitStorage /\ [][NextStorage]_vars


\* ------------------------------------------------------------------ claims
\* a step that ends a POST /videos/ request
PostVideosStep == nReq' = nReq + 1 /\ response'.ep = "POST /videos/"

\* a step that ends a GET /videos/{video_id} request
GetVideoStep == nReq' = nReq + 1 /\ response'.ep = "GET /videos/{video_id}"

\* C1: when the storage write of a POST /videos/ request raises, create_video is
\* not reached and the videos table after the request equals the table before it.
C1_NoRecordWithoutStorage ==
    [][(PostVideosStep /\ response'.cause = "storage")
         => (videos' = videos /\ ~response'.created)]_vars

\* C1 witness: a POST /videos/ whose storage write raised has been answered while
\* the table holds rows, and no record was created for it.
C1_Witness ==
    /\ response.ep = "POST /videos/"
    /\ response.cause = "storage"
    /\ ~response.created
    /\ videos # {}

\* C4 (as claimed): whenever backend selection finds a credential absent, or the
\* client or the head_bucket probe fails for any reason, the import raises
\* nothing and completes with the local backend selected and its directory
\* present.
C4_StartupNeverRaises ==
    (response.ep = "import"
       /\ response.cause \in ({"no credentials"} \cup ClientOutcomes \cup ProbeOutcomes) \ {"ok"})
      => (response.exc = "" /\ module = "loaded" /\ ~s3_enabled /\ dirExists)

\* C5: once s3_service is loaded, no step of any upload, failed or not, changes
\* s3_enabled or s3_client, and the module is never initialised again.
C5_BackendFixedAfterStartup ==
    [][module = "loaded"
         => (module' = "loaded" /\ s3_enabled' = s3_enabled /\ s3_client' = s3_client)]_vars

\* C5 witness: an S3 write has failed and the S3 backend is still the active one.
C5_Witness ==
    /\ module = "loaded"
    /\ s3_enabled
    /\ response.ep = "upload_to_s3"
    /\ response.exc = "ClientError"
    /\ frame.pc = "idle"

\* C6 (as claimed): POST /videos/ answers 201 on success, 400 on invalid input and
\* 500 on a storage or database failure.
C6_StatusByOutcome ==
    response.ep = "POST /videos/"
      => /\ response.cause = "ok" => response.status = 201
         /\ response.cause = "input" => response.status = 400
         /\ response.cause \in {"storage", "db"} => response.status = 500

\* C7 (as claimed): in local-disk mode every destination path lies inside
\* LOCAL_STORAGE_DIR and no file outside it is created or overwritten.
C7_WritesStayInsideRoot ==
    /\ frame.pc = "copy" => InsideRoot(frame.file_location, LOCAL_STORAGE_DIR)
    /\ \A p \in DiskPaths : disk[p] # Absent => InsideRoot(p, LOCAL_STORAGE_DIR)

\* C8 (as claimed): during and after a local write the file at the final path is
\* the previous content (or absent, if there was none) or the complete new
\* content, and a write that failed part-way leaves the previous state.
C8_NoPartialFile ==
    LET rp == RealPath(frame.file_location)
    IN  frame.file_location # FnEmpty
          => /\ disk[rp] \in {frame.prev, frame.file.data}
             /\ (frame.pc = "idle" /\ response.cause = "raised") => disk[rp] = frame.prev

\* C9 (as claimed): every failure of an endpoint caused by a driver or SDK
\* exception has the same response body as the first such failure of that
\* endpoint, whatever the exception's text.
C9_BodyIndependentOfExceptionText ==
    (response.ep \in Endpoints /\ response.cause \in {"db", "storage"})
      => response.msg = seen[response.ep]

\* C10 (as claimed): a GET /videos/{video_id} answered by the database leaves the table
\* unchanged, returns 404 exactly when no row has the id and the row otherwise,
\* and repeats the previous answer when it directly follows a GET of the same id.
C10_GetReadOnlyIdempotent ==
    [][GetVideoStep
         => /\ videos' = videos
            /\ response'.cause # "db"
                 => /\ response'.status = 404 <=> ~(\E v \in videos : v.id = response'.id)
                    /\ response'.status # 404
                         => (response'.status = 200 /\ response'.row \in videos
                             /\ response'.row.id = response'.id)
                    /\ (response.ep = "GET /videos/{video_id}" /\ response.cause # "db"
                        /\ response.id = response'.id)
                         => response' = response]_vars

====
